---- MODULE Spec2Model ----
(***************************************************************************)
(* Model of sambuca_core: the Lee/Sambuca forward model                    *)
(* (src/sambuca_core/forward_model.py) and its supporting utilities.       *)
(*                                                                         *)
(* Numbers.  Python floats and numpy float64 elements are modelled as      *)
(* decimal fixed-point numbers: the integer v stands for v / Scale.  Every *)
(* operation rounds its exact result to the nearest representable value,   *)
(* as binary64 does, and a result whose magnitude exceeds MaxFin overflows *)
(* to +/-infinity, as binary64 does beyond its own (much larger) range.    *)
(* The three special values of binary64 are kept: PInf, NInf and NaN.      *)
(* numpy operations follow numpy's default error state (warn, never        *)
(* raise); operations of Python's float and math module raise as Python    *)
(* does (ZeroDivisionError, ValueError).                                   *)
(***************************************************************************)
EXTENDS Integers, Sequences, FiniteSets, TLC

----------------------------------------------------------------------------
(* binary64 values *)

Scale == 1000
MaxFin == 1000000
PInf == 2000000000
NInf == -2000000000
NaN == 2100000000

IsNaN(x) == x = NaN
IsInf(x) == x = PInf \/ x = NInf
IsFin(x) == x >= -MaxFin /\ x <= MaxFin

Abs(x) == IF x < 0 THEN -x ELSE x
Sgn(x) == IF x < 0 THEN -1 ELSE IF x > 0 THEN 1 ELSE 0

\* overflow of a finite result to an infinity
Saturate(v) == IF v > MaxFin THEN PInf ELSE IF v < -MaxFin THEN NInf ELSE v

\* round(a / d) for a >= 0, d > 0
RoundDiv(a, d) == (a + d \div 2) \div d

\* round(a * b / d) for a, b >= 0, d > 0, without leaving 32 bits
MulDiv(a, b, d) == (a \div d) * b + RoundDiv((a % d) * b, d)

\* IEEE comparison ==  (NaN equals nothing, itself included)
FEq(x, y) == ~IsNaN(x) /\ ~IsNaN(y) /\ x = y

FNeg(x) == IF IsNaN(x) THEN NaN ELSE -x

FAdd(x, y) ==
    IF IsNaN(x) \/ IsNaN(y) THEN NaN
    ELSE IF IsInf(x) THEN (IF IsInf(y) /\ y # x THEN NaN ELSE x)
    ELSE IF IsInf(y) THEN y
    ELSE Saturate(x + y)

FSub(x, y) == FAdd(x, FNeg(y))

FMul(x, y) ==
    IF IsNaN(x) \/ IsNaN(y) THEN NaN
    ELSE IF IsInf(x) \/ IsInf(y)
         THEN (IF x = 0 \/ y = 0 THEN NaN
               ELSE IF Sgn(x) * Sgn(y) > 0 THEN PInf ELSE NInf)
    ELSE Saturate(Sgn(x) * Sgn(y) * MulDiv(Abs(x), Abs(y), Scale))

\* numpy true division: x / 0 is +/-inf or nan, never an exception
FDiv(x, y) ==
    IF IsNaN(x) \/ IsNaN(y) THEN NaN
    ELSE IF IsInf(x) THEN (IF IsInf(y) THEN NaN
                           ELSE IF Sgn(x) * (IF y < 0 THEN -1 ELSE 1) > 0
                                THEN PInf ELSE NInf)
    ELSE IF IsInf(y) THEN 0
    ELSE IF y = 0 THEN (IF x = 0 THEN NaN ELSE IF x > 0 THEN PInf ELSE NInf)
    ELSE Saturate(Sgn(x) * Sgn(y) * RoundDiv(Abs(x) * Scale, Abs(y)))

----------------------------------------------------------------------------
(* exp, log and power *)

\* e^n, n = 0..7, in units of 1/1000
ExpPos == <<1000, 2718, 7389, 20086, 54598, 148413, 403429, 1096633>>
\* e^-n, n = 1..8, in units of 1/100000
ExpNeg == <<36788, 13534, 4979, 1832, 674, 248, 91, 34>>

RECURSIVE ExpSeries(_, _, _, _)
\* sum of the Taylor terms k.. of e^(f/1000), in units of 1/10000
ExpSeries(f, k, term, acc) ==
    IF term = 0 \/ k > 12 THEN acc
    ELSE ExpSeries(f, k + 1, RoundDiv(term * f, 1000 * k), acc + term)

ExpFin(x) ==
    IF x >= 8000 THEN PInf
    ELSE IF x < -8000 THEN 0
    ELSE LET n == x \div 1000
             f == x % 1000
             ef == ExpSeries(f, 1, 10000, 0)
         IN  IF n >= 0 THEN Saturate(MulDiv(ExpPos[n + 1], ef, 10000))
             ELSE RoundDiv(ExpNeg[-n] * ef, 1000000)

\* numpy.exp
FExp(x) ==
    IF IsNaN(x) THEN NaN
    ELSE IF x = PInf THEN PInf
    ELSE IF x = NInf THEN 0
    ELSE ExpFin(x)

RECURSIVE LnReduce(_, _)
\* <<m, k>> with x = m * 2^k and 1000 <= m < 2000
LnReduce(m, k) ==
    IF m >= 2000 THEN LnReduce(RoundDiv(m, 2), k + 1)
    ELSE IF m < 1000 THEN LnReduce(2 * m, k - 1)
    ELSE <<m, k>>

\* ln(x / 1000) for finite x > 0, in units of 1/1000
LnFin(x) ==
    LET mk == LnReduce(x, 0)
        m == mk[1]
        k == mk[2]
        z == RoundDiv((m - 1000) * 100000, m + 1000)
        z2 == RoundDiv(z * z, 100000)
        z3 == RoundDiv(z * z2, 100000)
        z5 == RoundDiv(z3 * z2, 100000)
        z7 == RoundDiv(z5 * z2, 100000)
        z9 == RoundDiv(z7 * z2, 100000)
        lnm == 2 * (z + z3 \div 3 + z5 \div 5 + z7 \div 7 + z9 \div 9)
        v == lnm + k * 69315
    IN  Sgn(v) * RoundDiv(Abs(v), 100)

IsWhole(y) == IsFin(y) /\ y % Scale = 0
IsOdd(y) == IsWhole(y) /\ (y \div Scale) % 2 = 1

\* numpy.power(x, y) for a finite exponent y
FPow(x, y) ==
    IF y = 0 THEN Scale
    ELSE IF IsNaN(x) THEN NaN
    ELSE IF x = 0 THEN (IF y > 0 THEN 0 ELSE PInf)
    ELSE IF x = PInf THEN (IF y > 0 THEN PInf ELSE 0)
    ELSE IF x = NInf THEN (IF y < 0 THEN 0 ELSE IF IsOdd(y) THEN NInf ELSE PInf)
    ELSE IF x > 0 THEN FExp(FMul(y, LnFin(x)))
    ELSE IF ~IsWhole(y) THEN NaN
    ELSE IF IsOdd(y) THEN FNeg(FExp(FMul(y, LnFin(-x))))
    ELSE FExp(FMul(y, LnFin(-x)))

----------------------------------------------------------------------------
(* trigonometry of Python's math module *)

\* pi/2 in units of 1/10000, and pi in units of 1/1000
HalfPi4 == 15708
Pi3 == 3142

\* sin(y / 10000) for 0 <= y <= HalfPi4, in units of 1/10000
SinRaw(y) ==
    LET y2 == RoundDiv(y * y, 10000)
        t3 == RoundDiv(y * y2, 60000)
        t5 == RoundDiv(t3 * y2, 200000)
        t7 == RoundDiv(t5 * y2, 420000)
        t9 == RoundDiv(t7 * y2, 720000)
        t11 == RoundDiv(t9 * y2, 1100000)
        s == y - t3 + t5 - t7 + t9 - t11
    IN  IF s > 10000 THEN 10000 ELSE s

\* math.radians
Radians(d) == Sgn(d) * RoundDiv(Abs(d) * 17453, 1000000)

\* math.sin for |x| <= pi
Sin(x) ==
    LET ax == Abs(x)
        r == IF 10 * ax > HalfPi4 THEN 10 * (Pi3 - ax) ELSE 10 * ax
        rr == IF r < 0 THEN 0 ELSE r
    IN  Sgn(x) * RoundDiv(SinRaw(rr), 10)

RECURSIVE AsinSearch(_, _, _)
\* the largest angle lo..hi (units of 1/1000) whose sine is at most x10
AsinSearch(x10, lo, hi) ==
    IF lo >= hi THEN lo
    ELSE LET mid == (lo + hi + 1) \div 2
         IN  IF SinRaw(10 * mid) <= x10 THEN AsinSearch(x10, mid, hi)
             ELSE AsinSearch(x10, lo, mid - 1)

\* math.asin for |x| <= 1; the largest result is the float just below pi/2
Asin(x) == Sgn(x) * AsinSearch(10 * Abs(x), 0, HalfPi4 \div 10)

\* math.cos for |x| <= pi/2: positive at every float, also at asin(1.0)
Cos(x) ==
    LET c == RoundDiv(SinRaw(HalfPi4 - 10 * Abs(x)), 10)
    IN  IF c = 0 THEN 1 ELSE c

----------------------------------------------------------------------------
(* forward_model: the numeric literals of the source, in units of 1/Scale *)

\* 0.00194 / 2.0 and 4.32 (bbwater)
BbWaterCoef == 1
BbWaterExp == 4320
\* 1.03, 2.40, 1.04, 5.40 and the exponent 0.50 (path elongations)
DuColumnCoef == 1030
DuColumnSlope == 2400
DuBottomCoef == 1040
DuBottomSlope == 5400
DuExp == 500
\* 0.084 and 0.17 (rrsdp)
RrsdpG0 == 84
RrsdpG1 == 170
\* 1.0 / math.pi
InvPi == 318

\* One invocation of forward_model: its arguments, its position, its locals,
\* the record it returned and the exception it raised.
VARIABLES args, pc, loc, result, error
\* The objects the names of the invocation are bound to: obj.of[n] is the
\* identity of the object bound to the argument or local n, obj.call the
\* serial number of the invocation, which tags the objects it allocates.
VARIABLES obj
\* The frame of a second invocation in progress on another thread (empty when
\* there is none), and the invocations made so far: calls.started counts
\* them, calls.done holds the finished ones.
VARIABLES suspended, calls
\* A call of one of the array utilities (spectra_operations, sensor_filter).
VARIABLES util
\* An invocation of load_sensor_filters_excel.
VARIABLES ld

frame == <<args, pc, loc, result, error, obj>>
vars == <<args, pc, loc, result, error, obj, suspended, calls, util, ld>>

\* the caller's objects: the five array arguments (None is an object too)
ArrayArgs == {"substrate1", "substrate2", "wavelengths", "awater", "aphy_star"}
CallerObject(n) == <<0, n>>
\* the object an expression of invocation k evaluates to and binds to n
NewObject(k, n) == <<k, n>>

\* the names bound when invocation k is entered
EntryObjects(k) == [call |-> k, of |-> [n \in ArrayArgs |-> CallerObject(n)]]

\* ShapesOk without the check of the optional second substrate
ShapesOk_NoSubstrate2(p) ==
    /\ Len(p.substrate1) = p.num_bands
    /\ Len(p.wavelengths) = p.num_bands
    /\ Len(p.awater) = p.num_bands
    /\ Len(p.aphy_star) = p.num_bands

\* the five assertions that open forward_model
ShapesOk(p) ==
    /\ Len(p.substrate1) = p.num_bands
    /\ (p.has_substrate2 => Len(p.substrate2) = p.num_bands)
    /\ Len(p.wavelengths) = p.num_bands
    /\ Len(p.awater) = p.num_bands
    /\ Len(p.aphy_star) = p.num_bands

\* Bands with the last band dropped (a slice one short)
Bands_DropLast(p) == 1..(Len(p.wavelengths) - 1)

\* the band positions of the arrays derived from wavelengths
Bands(p) == 1..Len(p.wavelengths)

\* math.asin raises ValueError outside [-1, 1]; a NaN passes through
AsinRaises(x) == IsInf(x) \/ (IsFin(x) /\ Abs(x) > Scale)
PyAsin(x) == IF IsNaN(x) THEN NaN ELSE Asin(x)
PyCos(x) == IF IsNaN(x) THEN NaN ELSE Cos(x)

inv_refractive_index(p) == FDiv(Scale, p.water_refractive_index)
\* the argument handed to math.asin for an angle given in degrees
SnellArg(p, angle) == FMul(inv_refractive_index(p), Sin(Radians(angle)))
thetaw(p) == PyAsin(SnellArg(p, p.theta_air))
thetao(p) == PyAsin(SnellArg(p, p.off_nadir))

\* AnglesError without the domain check of the viewing angle
AnglesError_NoViewCheck(p) ==
    IF p.water_refractive_index = 0 THEN "ZeroDivisionError"
    ELSE IF AsinRaises(SnellArg(p, p.theta_air)) THEN "ValueError"
    ELSE "none"

\* the exception raised by lines 124-128, or "none"
AnglesError(p) ==
    IF p.water_refractive_index = 0 THEN "ZeroDivisionError"
    ELSE IF AsinRaises(SnellArg(p, p.theta_air)) THEN "ValueError"
    ELSE IF AsinRaises(SnellArg(p, p.off_nadir)) THEN "ValueError"
    ELSE "none"

AnglesLocals(p) == [thetaw |-> thetaw(p), thetao |-> thetao(p)]

\* derived SIOPs, per band i
bbwater(p, i) ==
    FMul(BbWaterCoef, FPow(FDiv(p.bb_lambda_ref, p.wavelengths[i]), BbWaterExp))
acdom_star(p, i) ==
    FMul(p.a_cdom_lambda0cdom,
         FExp(FMul(FNeg(p.slope_cdom), FSub(p.wavelengths[i], p.lambda0cdom))))
atr_star(p, i) ==
    FMul(p.a_nap_lambda0nap,
         FExp(FMul(FNeg(p.slope_nap), FSub(p.wavelengths[i], p.lambda0nap))))
backscatter(p, i) == FPow(FDiv(p.lambda0x, p.wavelengths[i]), p.slope_backscatter)
bbph_star(p, i) == FMul(p.x_ph_lambda0x, backscatter(p, i))
bbtr_star(p, i) == FMul(p.x_nap_lambda0x, backscatter(p, i))

SiopLocals(p) ==
    [bbwater |-> [i \in Bands(p) |-> bbwater(p, i)],
     acdom_star |-> [i \in Bands(p) |-> acdom_star(p, i)],
     atr_star |-> [i \in Bands(p) |-> atr_star(p, i)],
     bbph_star |-> [i \in Bands(p) |-> bbph_star(p, i)],
     bbtr_star |-> [i \in Bands(p) |-> bbtr_star(p, i)]]

\* total_a without the contribution of the non-algal particles
total_a_NoNap(p, l, i) ==
    FAdd(FAdd(p.awater[i], FMul(p.chl, p.aphy_star[i])),
         FMul(p.cdom, l.acdom_star[i]))

\* total_a with the phytoplankton absorption subtracted instead of added
total_a_ChlSubtracted(p, l, i) ==
    FAdd(FAdd(FSub(p.awater[i], FMul(p.chl, p.aphy_star[i])),
              FMul(p.cdom, l.acdom_star[i])),
         FMul(p.nap, l.atr_star[i]))

\* total_bb with a CDOM contribution
total_bb_WithCdom(p, l, i) ==
    FAdd(FAdd(FAdd(l.bbwater[i], FMul(p.chl, l.bbph_star[i])),
              FMul(p.cdom, l.bbph_star[i])),
         FMul(p.nap, l.bbtr_star[i]))

\* total absorption and total backscatter, per band i
total_a(p, l, i) ==
    FAdd(FAdd(FAdd(p.awater[i], FMul(p.chl, p.aphy_star[i])),
              FMul(p.cdom, l.acdom_star[i])),
         FMul(p.nap, l.atr_star[i]))
total_bb(p, l, i) ==
    FAdd(FAdd(l.bbwater[i], FMul(p.chl, l.bbph_star[i])),
         FMul(p.nap, l.bbtr_star[i]))

TotalsLocals(p, l) ==
    [a |-> [i \in Bands(p) |-> total_a(p, l, i)],
     bb |-> [i \in Bands(p) |-> total_bb(p, l, i)]]

\* r_substratum with the fraction applied to a single substrate as well
r_substratum_AlwaysScaled(p) ==
    IF p.has_substrate2
    THEN [i \in DOMAIN p.substrate1 |->
             FAdd(FMul(p.substrate_fraction, p.substrate1[i]),
                  FMul(FSub(Scale, p.substrate_fraction), p.substrate2[i]))]
    ELSE [i \in DOMAIN p.substrate1 |->
             FMul(p.substrate_fraction, p.substrate1[i])]

\* r_substratum with the weights of the two substrates exchanged
r_substratum_Swapped(p) ==
    IF p.has_substrate2
    THEN [i \in DOMAIN p.substrate1 |->
             FAdd(FMul(FSub(Scale, p.substrate_fraction), p.substrate1[i]),
                  FMul(p.substrate_fraction, p.substrate2[i]))]
    ELSE p.substrate1

\* total bottom reflectance from the two substrates
r_substratum(p) ==
    IF p.has_substrate2
    THEN [i \in DOMAIN p.substrate1 |->
             FAdd(FMul(p.substrate_fraction, p.substrate1[i]),
                  FMul(FSub(Scale, p.substrate_fraction), p.substrate2[i]))]
    ELSE p.substrate1

\* r_substratum_object with the single substrate copied
r_substratum_object_Copied(p, o) == NewObject(o.call, "r_substratum")

\* the object r_substratum is bound to: the result of the blend, or the
\* caller's substrate1 itself (line 151 binds the name, it copies nothing)
r_substratum_object(p, o) ==
    IF p.has_substrate2
    THEN NewObject(o.call, "r_substratum")
    ELSE o.of["substrate1"]

kappa(l, i) == FAdd(l.a[i], l.bb[i])

\* u_ratio with the division guarded: 0 where kappa is 0
u_ratio_Guarded(l, i) == IF l.kappa[i] = 0 THEN 0 ELSE FDiv(l.bb[i], l.kappa[i])

\* u_ratio with every band divided by the kappa of the first band
u_ratio_FirstBand(l, i) == FDiv(l.bb[i], l.kappa[1])

u_ratio(l, i) == FDiv(l.bb[i], l.kappa[i])
du_column(l, i) ==
    FMul(DuColumnCoef, FPow(FAdd(Scale, FMul(DuColumnSlope, l.u[i])), DuExp))
du_bottom(l, i) ==
    FMul(DuBottomCoef, FPow(FAdd(Scale, FMul(DuBottomSlope, l.u[i])), DuExp))
rrsdp(l, i) == FMul(FAdd(RrsdpG0, FMul(RrsdpG1, l.u[i])), l.u[i])

\* 1.0 / math.cos(x): Python float division
InvCos(x) == FDiv(Scale, PyCos(x))
InvCosRaises(x) == PyCos(x) = 0

\* kd with the reflectance of the bottom added to the attenuation
kd_WithBottom(l, i) == FMul(FAdd(l.kappa[i], l.r_substratum[i]), l.inv_cos_thetaw)

kd(l, i) == FMul(l.kappa[i], l.inv_cos_thetaw)
kuc(l, i) == FMul(l.kappa[i], l.du_column_scaled[i])
kub(l, i) == FMul(l.kappa[i], l.du_bottom_scaled[i])

kappa_d(p, l, i) == FMul(l.kappa[i], p.depth)

\* rrs with the deep-water term weighted by the attenuation itself, not by
\* one minus the attenuation
rrs_DeepNotComplemented(p, l, i) ==
    FAdd(FMul(l.rrsdp[i],
              FExp(FMul(FNeg(FAdd(l.inv_cos_thetaw, l.du_column_scaled[i])),
                        kappa_d(p, l, i)))),
         FMul(FMul(InvPi, l.r_substratum[i]),
              FExp(FMul(FNeg(FAdd(l.inv_cos_thetaw, l.du_bottom_scaled[i])),
                        kappa_d(p, l, i)))))

\* rrs with the column and bottom elongations exchanged
rrs_ElongationsSwapped(p, l, i) ==
    FAdd(FMul(l.rrsdp[i],
              FSub(Scale,
                   FExp(FMul(FNeg(FAdd(l.inv_cos_thetaw, l.du_bottom_scaled[i])),
                             kappa_d(p, l, i))))),
         FMul(FMul(InvPi, l.r_substratum[i]),
              FExp(FMul(FNeg(FAdd(l.inv_cos_thetaw, l.du_column_scaled[i])),
                        kappa_d(p, l, i)))))

rrs(p, l, i) ==
    FAdd(FMul(l.rrsdp[i],
              FSub(Scale,
                   FExp(FMul(FNeg(FAdd(l.inv_cos_thetaw, l.du_column_scaled[i])),
                             kappa_d(p, l, i))))),
         FMul(FMul(InvPi, l.r_substratum[i]),
              FExp(FMul(FNeg(FAdd(l.inv_cos_thetaw, l.du_bottom_scaled[i])),
                        kappa_d(p, l, i)))))

\* ForwardModelResults with kub and kuc passed in each other's position
ForwardModelResults_KubKucSwapped(l) ==
    [r_substratum |-> l.r_substratum,
     rrs |-> l.rrs,
     rrsdp |-> l.rrsdp,
     kd |-> l.kd,
     kub |-> l.kuc,
     kuc |-> l.kub,
     a |-> l.a,
     bb |-> l.bb]

\* the namedtuple built by the return statement
ForwardModelResults(l) ==
    [r_substratum |-> l.r_substratum,
     rrs |-> l.rrs,
     rrsdp |-> l.rrsdp,
     kd |-> l.kd,
     kub |-> l.kub,
     kuc |-> l.kuc,
     a |-> l.a,
     bb |-> l.bb]

----------------------------------------------------------------------------
(* forward_model as a whole: the locals after each block of the body *)

ColumnLocals(l0) ==
    LET l1 == l0 @@ [kappa |-> [i \in DOMAIN l0.a |-> kappa(l0, i)]]
        l2 == l1 @@ [u |-> [i \in DOMAIN l1.a |-> u_ratio(l1, i)]]
    IN  [kappa |-> l2.kappa,
         u |-> l2.u,
         du_column |-> [i \in DOMAIN l2.u |-> du_column(l2, i)],
         du_bottom |-> [i \in DOMAIN l2.u |-> du_bottom(l2, i)],
         rrsdp |-> [i \in DOMAIN l2.u |-> rrsdp(l2, i)]]

AttenuationError(l) ==
    IF InvCosRaises(l.thetaw) \/ InvCosRaises(l.thetao)
    THEN "ZeroDivisionError" ELSE "none"

AttenuationLocals(l0) ==
    LET l1 == l0 @@ [inv_cos_thetaw |-> InvCos(l0.thetaw),
                     inv_cos_theta0 |-> InvCos(l0.thetao)]
        l2 == l1 @@ [du_column_scaled |->
                         [i \in DOMAIN l1.du_column |->
                             FMul(l1.du_column[i], l1.inv_cos_theta0)],
                     du_bottom_scaled |->
                         [i \in DOMAIN l1.du_bottom |->
                             FMul(l1.du_bottom[i], l1.inv_cos_theta0)]]
    IN  [inv_cos_thetaw |-> l2.inv_cos_thetaw,
         inv_cos_theta0 |-> l2.inv_cos_theta0,
         du_column_scaled |-> l2.du_column_scaled,
         du_bottom_scaled |-> l2.du_bottom_scaled,
         kd |-> [i \in DOMAIN l2.kappa |-> kd(l2, i)],
         kuc |-> [i \in DOMAIN l2.kappa |-> kuc(l2, i)],
         kub |-> [i \in DOMAIN l2.kappa |-> kub(l2, i)]]

ReflectanceLocals(p, l) == [rrs |-> [i \in DOMAIN l.kappa |-> rrs(p, l, i)]]

\* the locals when the return statement is reached (no exception raised)
FinalLocals(p) ==
    LET l1 == AnglesLocals(p)
        l2 == l1 @@ SiopLocals(p)
        l3 == l2 @@ TotalsLocals(p, l2)
        l4 == l3 @@ [r_substratum |-> r_substratum(p)]
        l5 == l4 @@ ColumnLocals(l4)
        l6 == l5 @@ AttenuationLocals(l5)
    IN  l6 @@ ReflectanceLocals(p, l6)

\* the exception forward_model(p) raises, or "none"
forward_model_error(p) ==
    IF ~ShapesOk(p) THEN "AssertionError"
    ELSE IF AnglesError(p) # "none" THEN AnglesError(p)
    ELSE AttenuationError(AnglesLocals(p))

\* the record forward_model(p) returns, when it raises nothing
forward_model(p) == ForwardModelResults(FinalLocals(p))

----------------------------------------------------------------------------
(* the steps of one invocation *)

NoLocals == <<>>

\* an exception leaves the frame: nothing is bound, nothing is returned
Raise(e) ==
    /\ pc' = "raised"
    /\ error' = e
    /\ UNCHANGED <<args, loc, result, obj, suspended, calls, util, ld>>

\* assignment statements: each name of newlocals is bound to the value of
\* newlocals and to the object of newobjs
Bind(label, newlocals, newobjs) ==
    /\ pc' = label
    /\ loc' = loc @@ newlocals
    /\ obj' = [obj EXCEPT !.of = @ @@ newobjs]
    /\ UNCHANGED <<args, result, error, suspended, calls, util, ld>>

\* assignments of arithmetic expressions: every result is a new object
Goto(label, newlocals) ==
    Bind(label, newlocals, [n \in DOMAIN newlocals |-> NewObject(obj.call, n)])

\* lines 116-121
Validate ==
    /\ pc = "validate"
    /\ IF ShapesOk(args) THEN Goto("angles", NoLocals) ELSE Raise("AssertionError")

\* lines 123-128
Angles ==
    /\ pc = "angles"
    /\ IF AnglesError(args) = "none"
       THEN Goto("siops", AnglesLocals(args))
       ELSE Raise(AnglesError(args))

\* lines 130-143
Siops ==
    /\ pc = "siops"
    /\ Goto("totals", SiopLocals(args))

\* lines 145-148
Totals ==
    /\ pc = "totals"
    /\ Goto("substrate", TotalsLocals(args, loc))

\* Substrate with the blend accumulated in place in the caller's substrate1
Substrate_InPlace ==
    /\ pc = "substrate"
    /\ pc' = "column"
    /\ loc' = loc @@ [r_substratum |-> r_substratum(args)]
    /\ obj' = [obj EXCEPT !.of = @ @@ [r_substratum |-> obj.of["substrate1"]]]
    /\ args' = [args EXCEPT !.substrate1 = r_substratum(args)]
    /\ UNCHANGED <<result, error, suspended, calls, util, ld>>

\* lines 150-154
Substrate ==
    /\ pc = "substrate"
    /\ Bind("column", [r_substratum |-> r_substratum(args)],
            [r_substratum |-> r_substratum_object(args, obj)])

\* lines 156-168
Column ==
    /\ pc = "column"
    /\ Goto("attenuation", ColumnLocals(loc))

\* lines 170-179
Attenuation ==
    /\ pc = "attenuation"
    /\ IF AttenuationError(loc) = "none"
       THEN Goto("reflectance", AttenuationLocals(loc))
       ELSE Raise(AttenuationError(loc))

\* lines 181-186
Reflectance ==
    /\ pc = "reflectance"
    /\ Goto("return", ReflectanceLocals(args, loc))

\* lines 188-197
Return ==
    /\ pc = "return"
    /\ pc' = "returned"
    /\ result' = <<ForwardModelResults(loc)>>
    /\ UNCHANGED <<args, loc, error, obj, suspended, calls, util, ld>>

Next ==
    \/ Validate
    \/ Angles
    \/ Siops
    \/ Totals
    \/ Substrate
    \/ Column
    \/ Attenuation
    \/ Reflectance
    \/ Return

----------------------------------------------------------------------------
(* the invocations explored *)

MaxBands == 2
MaxConc == 2

\* a spectrum of n bands whose value at band i is first + (i - 1) * step
Ramp(n, first, step) == [i \in 1..n |-> first + (i - 1) * step]

\* the first n bands of a spectrum
Take(s, n) == [i \in 1..n |-> s[i]]

\* an invocation with nb bands: the keyword defaults of the signature (the
\* specific backscatters and the NAP absorption scaled up to the resolution
\* of the arithmetic), one substrate, and the refractive index of the tests
Base(nb) ==
    [chl |-> 1000, cdom |-> 1000, nap |-> 1000, depth |-> 1000,
     substrate1 |-> Ramp(nb, 400, -100),
     wavelengths |-> Ramp(nb, 450000, 100000),
     awater |-> Ramp(nb, 100, 100),
     aphy_star |-> Ramp(nb, 50, 50),
     num_bands |-> nb,
     substrate_fraction |-> 1000,
     has_substrate2 |-> FALSE, substrate2 |-> <<>>,
     slope_cdom |-> 17, slope_nap |-> 10, slope_backscatter |-> 878,
     lambda0cdom |-> 550000, lambda0nap |-> 550000, lambda0x |-> 546000,
     x_ph_lambda0x |-> 200, x_nap_lambda0x |-> 300,
     a_cdom_lambda0cdom |-> 1000, a_nap_lambda0nap |-> 400,
     bb_lambda_ref |-> 550000,
     water_refractive_index |-> 1333,
     theta_air |-> 30000, off_nadir |-> 0]

\* sequences of every length, right or wrong, for each per-band argument
ShapeInputs ==
    { [Base(nb) EXCEPT !.substrate1 = Ramp(l1, 400, -100),
                       !.wavelengths = Ramp(l2, 450000, 100000),
                       !.awater = Ramp(l3, 100, 100),
                       !.aphy_star = Ramp(l4, 50, 50),
                       !.has_substrate2 = (l5 >= 0),
                       !.substrate2 = Ramp(l5, 200, 300),
                       !.water_refractive_index = n] :
        nb \in 1..MaxBands, l1 \in 0..MaxBands, l2 \in 0..MaxBands,
        l3 \in 0..MaxBands, l4 \in 0..MaxBands, l5 \in -1..MaxBands,
        n \in {0, 1333} }

\* scalar parameters inside and outside their physical domain
ScalarInputs ==
    { [Base(nb) EXCEPT !.water_refractive_index = n,
                       !.theta_air = ta, !.off_nadir = vo,
                       !.chl = c, !.cdom = d, !.nap = c, !.depth = h] :
        nb \in 1..MaxBands, n \in {0, 500, 1000, 1333},
        ta \in {0, 30000, 90000, 120000}, vo \in {-30000, 0, 30000, 90000},
        c \in {-1000, 0, 1000}, d \in {0, 1000}, h \in {-1000, 0, 1000} }

\* one or two substrates, fractions inside and outside [0, 1]
SubstrateInputs ==
    { [Base(nb) EXCEPT !.substrate1 = Take(s1, nb),
                       !.has_substrate2 = h,
                       !.substrate2 = IF h THEN Take(s2, nb) ELSE <<>>,
                       !.substrate_fraction = f] :
        nb \in 1..MaxBands, h \in BOOLEAN,
        s1 \in [1..MaxBands -> {0, 300, 900}],
        s2 \in [1..MaxBands -> {100, 700}],
        f \in {-500, 0, 250, 500, 1000, 1500} }

\* whole concentrations 0..MaxConc, specific absorptions zero and positive
WaterInputs ==
    { [Base(nb) EXCEPT !.chl = Scale * c1, !.cdom = Scale * c2, !.nap = Scale * c3,
                       !.aphy_star = Take(ap, nb),
                       !.a_cdom_lambda0cdom = ac, !.a_nap_lambda0nap = an] :
        nb \in 1..MaxBands, c1 \in 0..MaxConc, c2 \in 0..MaxConc, c3 \in 0..MaxConc,
        ap \in [1..MaxBands -> {0, 500}],
        ac \in {0, 1000}, an \in {0, 400} }

\* depths from zero, with and without water constituents, pure water that
\* absorbs and scatters or does neither, one or two substrates
DepthInputs ==
    { [Base(nb) EXCEPT !.depth = h, !.theta_air = ta, !.off_nadir = vo,
                       !.chl = c, !.cdom = d, !.nap = c,
                       !.awater = Ramp(nb, aw, aw),
                       !.bb_lambda_ref = br,
                       !.has_substrate2 = s, 
                       !.substrate2 = IF s THEN Ramp(nb, 200, 300) ELSE <<>>,
                       !.substrate_fraction = 500] :
        nb \in 1..MaxBands, h \in {0, 500, 2000},
        ta \in {0, 30000, 60000}, vo \in {0, 30000},
        c \in {-1000, 0, 1000}, d \in {0, 1000},
        aw \in {0, 100}, br \in {0, 550000}, s \in BOOLEAN }

\* water without constituents whose absorption cancels the backscatter of
\* pure water at some bands (kappa = 0 there, with bb zero or not), under a
\* sun at 30 degrees and on the horizon, seen through water and through a
\* medium of index 1, which refracts a horizontal ray into a horizontal ray
DegenerateInputs ==
    { [Base(nb) EXCEPT !.chl = 0, !.cdom = 0, !.nap = 0,
                       !.awater = Take(aw, nb),
                       !.bb_lambda_ref = br,
                       !.water_refractive_index = n,
                       !.theta_air = ta,
                       !.depth = h,
                       !.has_substrate2 = s,
                       !.substrate2 = IF s THEN Ramp(nb, 200, 300) ELSE <<>>,
                       !.substrate_fraction = 500] :
        nb \in 1..MaxBands, aw \in [1..MaxBands -> {-2, -1, 0, 100}],
        br \in {0, 550000}, n \in {1000, 1333}, ta \in {30000, 90000},
        h \in {0, 1000}, s \in BOOLEAN }

\* spectra that differ from band to band, one or two substrates, at the
\* surface and below it
BandInputs ==
    { [Base(nb) EXCEPT !.awater = Ramp(nb, aw, 100),
                       !.depth = h,
                       !.theta_air = ta,
                       !.has_substrate2 = s,
                       !.substrate2 = IF s THEN Ramp(nb, 200, 300) ELSE <<>>,
                       !.substrate_fraction = 250] :
        nb \in 1..MaxBands, aw \in {0, 100}, h \in {0, 1000},
        ta \in {30000, 60000}, s \in BOOLEAN }

\* no utility call and no loader invocation in progress
NoUtil == [fn |-> "none"]
NoLoad == [pc |-> "none"]

\* a single invocation, the first, entered with one of the inputs
Start(inputs) ==
    /\ args \in inputs
    /\ pc = "validate"
    /\ loc = NoLocals
    /\ result = <<>>
    /\ error = "none"
    /\ obj = EntryObjects(1)
    /\ suspended = <<>>
    /\ calls = [started |-> 1, done |-> {}]
    /\ util = NoUtil
    /\ ld = NoLoad

----------------------------------------------------------------------------
(* repeated and concurrent invocations *)

MaxCalls == 3

\* the invocations the callers choose from: one and two substrates, zero
\* depth, and an invocation that raises
CallInputs ==
    { Base(2),
      [Base(2) EXCEPT !.has_substrate2 = TRUE,
                      !.substrate2 = Ramp(2, 200, 300),
                      !.substrate_fraction = 500],
      [Base(2) EXCEPT !.depth = 0, !.chl = 0],
      [Base(2) EXCEPT !.water_refractive_index = 500, !.theta_air = 90000] }

\* a frame as the interpreter keeps it while its thread does not run
Frame(a, c, l, r, e, o) ==
    [args |-> a, pc |-> c, loc |-> l, result |-> r, error |-> e, obj |-> o]
Running == Frame(args, pc, loc, result, error, obj)

\* the frame of invocation number k on entry, and whether a frame has left
\* the function
Entered(p, k) == Frame(p, "validate", NoLocals, <<>>, "none", EntryObjects(k))
Finished(f) == f.pc \in {"returned", "raised"}

\* a finished invocation as its caller sees it: what it passed, what came
\* back, and the objects the fields of the returned record are
Seen(f) ==
    [call |-> f.obj.call, args |-> f.args, result |-> f.result,
     error |-> f.error, inputs |-> [n \in ArrayArgs |-> f.obj.of[n]],
     fields |-> IF f.pc = "returned"
                THEN [n \in DOMAIN f.result[1] |-> f.obj.of[n]]
                ELSE <<>>]

\* Call that enters the function with the locals of the previous invocation
\* still bound
Call_KeepsLocals ==
    /\ Finished(Running)
    /\ calls.started < MaxCalls
    /\ args' \in CallInputs
    /\ pc' = "validate"
    /\ loc' = loc
    /\ result' = <<>>
    /\ error' = "none"
    /\ obj' = EntryObjects(calls.started + 1)
    /\ calls' = [started |-> calls.started + 1,
                 done |-> calls.done \cup {Seen(Running)}]
    /\ UNCHANGED <<suspended, util, ld>>

\* the running thread, back from one invocation, makes the next: a new
\* frame, its parameters bound to the arguments and no local bound
Call ==
    /\ Finished(Running)
    /\ calls.started < MaxCalls
    /\ args' \in CallInputs
    /\ pc' = "validate"
    /\ loc' = NoLocals
    /\ result' = <<>>
    /\ error' = "none"
    /\ obj' = EntryObjects(calls.started + 1)
    /\ calls' = [started |-> calls.started + 1,
                 done |-> calls.done \cup {Seen(Running)}]
    /\ UNCHANGED <<suspended, util, ld>>

\* the interpreter switches threads between two steps: the running frame is
\* set aside and the other thread's frame resumes
Switch ==
    /\ suspended # <<>>
    /\ args' = suspended[1].args
    /\ pc' = suspended[1].pc
    /\ loc' = suspended[1].loc
    /\ result' = suspended[1].result
    /\ error' = suspended[1].error
    /\ obj' = suspended[1].obj
    /\ suspended' = <<Running>>
    /\ UNCHANGED <<calls, util, ld>>

\* two threads, each inside its first invocation
InitCalls ==
    /\ \E p \in CallInputs, q \in CallInputs :
           /\ args = p
           /\ suspended = <<Entered(q, 2)>>
    /\ pc = "validate"
    /\ loc = NoLocals
    /\ result = <<>>
    /\ error = "none"
    /\ obj = EntryObjects(1)
    /\ calls = [started |-> 2, done |-> {}]
    /\ util = NoUtil
    /\ ld = NoLoad

NextCalls ==
    \/ Next
    \/ Call
    \/ Switch

SpecCalls == InitCalls /\ [][NextCalls]_vars

Init == Start(ShapeInputs \cup ScalarInputs \cup SubstrateInputs
              \cup WaterInputs \cup DepthInputs)
InitShape == Start(ShapeInputs)
InitScalars == Start(ScalarInputs)
InitSubstrate == Start(SubstrateInputs)
InitWater == Start(WaterInputs)
InitDepth == Start(DepthInputs)
InitBands == Start(BandInputs)
InitDegenerate == Start(DegenerateInputs)

Spec == Init /\ [][Next]_vars
SpecShape == InitShape /\ [][Next]_vars
SpecScalars == InitScalars /\ [][Next]_vars
SpecSubstrate == InitSubstrate /\ [][Next]_vars
SpecWater == InitWater /\ [][Next]_vars
SpecDepth == InitDepth /\ [][Next]_vars
SpecBands == InitBands /\ [][Next]_vars
SpecDegenerate == InitDegenerate /\ [][Next]_vars

----------------------------------------------------------------------------
(* the array utilities: sensor_filter.apply_sensor_filter and the functions
   of spectra_operations.  util holds one call: the function, its two
   arguments x and y, and what it returned or raised. *)

MaxRows == 2

RECURSIVE SumTo(_, _)
\* numpy's sum of the first n elements of v
SumTo(v, n) == IF n = 0 THEN 0 ELSE FAdd(SumTo(v, n - 1), v[n])

\* numpy.dot of two vectors of equal length
Dot(v, w) == SumTo([j \in 1..Len(v) |-> FMul(v[j], w[j])], Len(v))

\* apply_sensor_filter that takes the row weights to sum to 1
apply_sensor_filter_NoDivide(spectra, response) ==
    [r \in 1..Len(response) |-> Dot(response[r], spectra)]

\* np.dot(response, spectra) / response.sum(1)
apply_sensor_filter(spectra, response) ==
    [r \in 1..Len(response) |->
        FDiv(Dot(response[r], spectra), SumTo(response[r], Len(response[r])))]

\* a utility call on entry, and its return
UtilCall(f, x, y) == [fn |-> f, x |-> x, y |-> y, pc |-> "call", ret |-> <<>>]
UtilReturn(v) ==
    /\ util' = [util EXCEPT !.pc = "returned", !.ret = v]
    /\ UNCHANGED <<frame, suspended, calls, ld>>
UtilRaise(e) ==
    /\ util' = [util EXCEPT !.pc = e]
    /\ UNCHANGED <<frame, suspended, calls, ld>>

\* lines 41-43 of sensor_filter.py
ApplySensorFilter ==
    /\ util.fn = "apply_sensor_filter"
    /\ util.pc = "call"
    /\ UtilReturn(apply_sensor_filter(util.x, util.y))

\* no invocation of forward_model in progress
NoInvocation ==
    /\ args = Base(1)
    /\ pc = "none"
    /\ loc = NoLocals
    /\ result = <<>>
    /\ error = "none"
    /\ obj = EntryObjects(0)
    /\ suspended = <<>>
    /\ calls = [started |-> 0, done |-> {}]

\* a rising and a flat spectrum of up to MaxBands bands, and response
\* matrices of up to MaxRows rows, whose weights are zero, one or three and
\* need not sum to 1
FilterCalls ==
    { UtilCall("apply_sensor_filter", Ramp(n, first, 2000 - first),
               [r \in 1..m |-> Take(w[r], n)]) :
        n \in 1..MaxBands, m \in 1..MaxRows, first \in {500, 2000},
        w \in [1..MaxRows -> [1..MaxBands -> {0, 1000, 3000}]] }

RECURSIVE Insert(_, _)
\* the sorted sequence s with v put in its place
Insert(s, v) ==
    IF Len(s) = 0 THEN <<v>>
    ELSE IF v <= s[1] THEN <<v>> \o s
    ELSE <<s[1]>> \o Insert(Tail(s), v)

RECURSIVE Sort(_)
\* ndarray.sort
Sort(s) == IF Len(s) = 0 THEN <<>> ELSE Insert(Sort(Tail(s)), s[1])

RECURSIVE Adjacent(_, _)
\* the elements s[i], i < Len(s), of a sorted s with (s[i] = s[i+1]) = keep:
\* aux[:-1][aux[1:] == aux[:-1]] for keep = TRUE, and with the last element
\* appended the distinct elements for keep = FALSE
Adjacent(s, keep) ==
    IF Len(s) <= 1 THEN <<>>
    ELSE (IF (s[1] = s[2]) = keep THEN <<s[1]>> ELSE <<>>)
             \o Adjacent(Tail(s), keep)

\* numpy.unique: the distinct elements, sorted
Unique(s) ==
    LET t == Sort(s)
    IN  IF Len(t) = 0 THEN <<>> ELSE Adjacent(t, FALSE) \o <<t[Len(t)]>>

\* numpy.intersect1d told that its arguments hold no duplicates
intersect1d_AssumeUnique(a, b) == Adjacent(Sort(a \o b), TRUE)

\* numpy.intersect1d: both arguments made unique, concatenated and sorted;
\* a common value is one that is followed by its equal
intersect1d(a, b) == Adjacent(Sort(Unique(a) \o Unique(b)), TRUE)

\* line 26 of spectra_operations.py
spectra_find_common_wavelengths(wavs_a, wavs_b) == intersect1d(wavs_a, wavs_b)

FindCommonWavelengths ==
    /\ util.fn = "spectra_find_common_wavelengths"
    /\ util.pc = "call"
    /\ UtilReturn(spectra_find_common_wavelengths(util.x, util.y))

\* ndarray.min and ndarray.max of a non-empty array
ArrayMin(s) == CHOOSE v \in {s[i] : i \in 1..Len(s)} :
                   \A i \in 1..Len(s) : v <= s[i]
ArrayMax(s) == CHOOSE v \in {s[i] : i \in 1..Len(s)} :
                   \A i \in 1..Len(s) : v >= s[i]

RECURSIVE Compress(_, _)
\* boolean-mask indexing: the elements of s where keep is TRUE, in order
Compress(s, keep) ==
    IF Len(s) = 0 THEN <<>>
    ELSE (IF keep[1] THEN <<s[1]>> ELSE <<>>) \o Compress(Tail(s), Tail(keep))

\* lines 42-43 of spectra_operations.py, for a non-empty mask
spectra_apply_wavelength_mask(spectra, mask) ==
    LET boolean_mask ==
            [i \in 1..Len(spectra[1]) |->
                /\ spectra[1][i] >= ArrayMin(mask)
                /\ spectra[1][i] <= ArrayMax(mask)]
    IN  <<Compress(spectra[1], boolean_mask), Compress(spectra[2], boolean_mask)>>

\* mask.min() of an empty mask raises ValueError
ApplyWavelengthMask ==
    /\ util.fn = "spectra_apply_wavelength_mask"
    /\ util.pc = "call"
    /\ IF Len(util.y) = 0
       THEN UtilRaise("ValueError")
       ELSE UtilReturn(spectra_apply_wavelength_mask(util.x, util.y))

\* wavelength vectors of up to MaxBands elements, in any order, with repeats
Wavelengths ==
    { Take(w, n) : n \in 0..MaxBands, w \in [1..MaxBands -> {1000, 2000, 3000}] }

CommonCalls ==
    { UtilCall("spectra_find_common_wavelengths", a, b) :
        a \in Wavelengths, b \in Wavelengths }

\* spectra whose value at position i is 10 * i, and masks
MaskCalls ==
    { UtilCall("spectra_apply_wavelength_mask", <<w, Ramp(Len(w), 10, 10)>>, m) :
        w \in Wavelengths, m \in Wavelengths }

InitSpectra ==
    /\ \/ util \in FilterCalls
       \/ util \in CommonCalls
       \/ util \in MaskCalls
    /\ NoInvocation
    /\ ld = NoLoad

NextSpectra ==
    \/ ApplySensorFilter
    \/ FindCommonWavelengths
    \/ ApplyWavelengthMask

SpecSpectra == InitSpectra /\ [][NextSpectra]_vars

----------------------------------------------------------------------------
(* sensor_filter.load_sensor_filters_excel.  A worksheet parsed into a data
   frame is its index (the band-centre wavelengths), its columns (one
   sequence of values per band of the filter) and whether every column has a
   numeric dtype.  ld holds one invocation: the workbook, the arguments, the
   position in the loop and the dictionary built so far. *)

MaxRequested == 2

\* utility.strictly_increasing: every element smaller than the next
strictly_increasing(w) == \A k \in 1..(Len(w) - 1) : w[k] < w[k + 1]

\* numpy.ediff1d: the differences of consecutive elements
ediff1d(w) == [k \in 1..(Len(w) - 1) |-> FSub(w[k + 1], w[k])]

\* _validate_filter_dataframe: what it returns, or the exception raised by
\* the min() of an empty array of differences
validate_filter_dataframe(df) ==
    IF ~strictly_increasing(df.index) THEN "False"
    ELSE IF Len(ediff1d(df.index)) = 0 THEN "ValueError"
    ELSE IF ArrayMin(ediff1d(df.index)) < Scale
            \/ ArrayMax(ediff1d(df.index)) > Scale THEN "False"
    ELSE IF ~df.numeric THEN "False"
    ELSE "True"

\* _normalise_df: every value divided by the largest value of the frame
normalise_df(df) ==
    LET top == ArrayMax([c \in 1..Len(df.columns) |-> ArrayMax(df.columns[c])])
    IN  [df EXCEPT !.columns =
            [c \in 1..Len(df.columns) |->
                [k \in 1..Len(df.columns[c]) |-> FDiv(df.columns[c][k], top)]]]

\* a frame of n rows from wavelength first in steps of step, with two bands
\* of constant value 1 and 2
SheetFrame(n, first, step, numeric) ==
    [index |-> Ramp(n, first, step),
     columns |-> <<Ramp(n, 1000, 0), Ramp(n, 2000, 0)>>,
     numeric |-> numeric]

\* the workbook: sheets in file order.  Two valid filters at 1 nm, one
\* sampled at 10 nm, one at 0.1 nm, one out of sequence, one with a text
\* column, and one with a single row
WorkbookSheets == <<"valid3", "coarse", "valid2", "fine", "unordered", "text", "single">>
Workbook ==
    [n \in {WorkbookSheets[k] : k \in 1..Len(WorkbookSheets)} |->
        IF n = "valid3" THEN SheetFrame(3, 350000, 1000, TRUE)
        ELSE IF n = "valid2" THEN SheetFrame(2, 400000, 1000, TRUE)
        ELSE IF n = "coarse" THEN SheetFrame(3, 350000, 10000, TRUE)
        ELSE IF n = "fine" THEN SheetFrame(3, 350000, 100, TRUE)
        ELSE IF n = "unordered" THEN SheetFrame(3, 352000, -1000, TRUE)
        ELSE IF n = "text" THEN SheetFrame(3, 350000, 1000, FALSE)
        ELSE SheetFrame(1, 350000, 1000, TRUE)]

\* lines 144-148: the dictionary is created, the workbook opened, and an
\* absent or empty list of names replaced by the names of all its sheets
LoadOpen ==
    /\ ld.pc = "open"
    /\ ld' = [ld EXCEPT !.pc = "loop",
                        !.sheet_names = IF Len(@) = 0 THEN WorkbookSheets ELSE @]
    /\ UNCHANGED <<frame, suspended, calls, util>>

\* lines 150-166, one iteration: a sheet that is missing (XLRDError, caught)
\* or fails validation is skipped, an exception of the validation leaves
\* the function, any other sheet is entered in the dictionary as
\* (np.array(df.index), df.values.transpose())
LoadSheet ==
    /\ ld.pc = "loop"
    /\ ld.i <= Len(ld.sheet_names)
    /\ LET sheet == ld.sheet_names[ld.i]
       IN  IF sheet \notin DOMAIN Workbook
           THEN ld' = [ld EXCEPT !.i = @ + 1]
           ELSE LET df == Workbook[sheet]
                    valid == validate_filter_dataframe(df)
                IN  IF valid = "False" THEN ld' = [ld EXCEPT !.i = @ + 1]
                    ELSE IF valid # "True" THEN ld' = [ld EXCEPT !.pc = valid]
                    ELSE LET kept == IF ld.normalise THEN normalise_df(df) ELSE df
                         IN  ld' = [ld EXCEPT
                                     !.i = @ + 1,
                                     !.sensor_filters =
                                         (sheet :> <<kept.index, kept.columns>>) @@ @]
    /\ UNCHANGED <<frame, suspended, calls, util>>

\* line 168
LoadReturn ==
    /\ ld.pc = "loop"
    /\ ld.i > Len(ld.sheet_names)
    /\ ld' = [ld EXCEPT !.pc = "returned"]
    /\ UNCHANGED <<frame, suspended, calls, util>>

\* every list of up to MaxRequested names, each a sheet or a name that is
\* no sheet, the empty list standing for the default as well
LoadCalls ==
    { [pc |-> "open", requested |-> Take(r, n), sheet_names |-> Take(r, n),
       normalise |-> z, i |-> 1, sensor_filters |-> <<>>] :
        n \in 0..MaxRequested,
        r \in [1..MaxRequested -> DOMAIN Workbook \cup {"missing"}],
        z \in BOOLEAN }

InitExcel ==
    /\ ld \in LoadCalls
    /\ NoInvocation
    /\ util = NoUtil

NextExcel ==
    \/ LoadOpen
    \/ LoadSheet
    \/ LoadReturn

SpecExcel == InitExcel /\ [][NextExcel]_vars

----------------------------------------------------------------------------
(* sensor_filter.load_sensor_filters.  The directory is the list of its
   Excel files and the list of its spectral libraries, in the order of
   list_files; a file is what loading it does: the error it raises, if any,
   and the names it supplies.  The filter that source k supplies is written
   <<kind, k>>, so that the value of a name tells where it came from.  Here
   ld holds the files, the position in each loop, sensor_filters and
   new_filters. *)

MaxFiles == 2

FilterNames == {"a", "b"}

\* merge_dictionary as dict.update: the new item replaces the one present
merge_dictionary_Update(target, new_items) == new_items @@ target

\* _merge_dictionary: the names of new_items that target lacks are added
\* with their filters, the names it has keep theirs
merge_dictionary(target, new_items) ==
    [n \in DOMAIN target \cup DOMAIN new_items |->
        IF n \in DOMAIN target THEN target[n] ELSE new_items[n]]

\* the dictionary load_sensor_filters_excel returns for the k-th Excel file
ExcelFilters(file, k) == [n \in file.names |-> <<"excel", k>>]

\* lines 230-237, one iteration: new_filters is loaded, or left as it was
\* when UnsupportedDataFormatError is caught, and merged; any other error
\* leaves the function
MergeExcel ==
    /\ ld.pc = "excel"
    /\ ld.i <= Len(ld.excel)
    /\ LET file == ld.excel[ld.i]
           loaded == IF file.raises = "none" THEN ExcelFilters(file, ld.i)
                     ELSE ld.new_filters
       IN  IF file.raises \notin {"none", "UnsupportedDataFormatError"}
           THEN ld' = [ld EXCEPT !.pc = file.raises]
           ELSE ld' = [ld EXCEPT
                        !.i = @ + 1,
                        !.new_filters = loaded,
                        !.sensor_filters = merge_dictionary(@, loaded)]
    /\ UNCHANGED <<frame, suspended, calls, util>>

\* line 240: the loop over the libraries starts when the Excel files are done
MergeLibraries ==
    /\ ld.pc = "excel"
    /\ ld.i > Len(ld.excel)
    /\ ld' = [ld EXCEPT !.pc = "lib"]
    /\ UNCHANGED <<frame, suspended, calls, util>>

\* lines 240-259, one iteration: the filter of the library is entered under
\* its name unless the name is taken, and new_filters, still that of the
\* last Excel file, is merged once more
MergeLibrary ==
    /\ ld.pc = "lib"
    /\ ld.j <= Len(ld.libs)
    /\ LET file == ld.libs[ld.j]
           entered == IF file.raises = "none" /\ file.name \notin DOMAIN ld.sensor_filters
                      THEN (file.name :> <<"lib", ld.j>>) @@ ld.sensor_filters
                      ELSE ld.sensor_filters
       IN  IF file.raises \notin {"none", "UnsupportedDataFormatError"}
           THEN ld' = [ld EXCEPT !.pc = file.raises]
           ELSE ld' = [ld EXCEPT
                        !.j = @ + 1,
                        !.sensor_filters = merge_dictionary(entered, ld.new_filters)]
    /\ UNCHANGED <<frame, suspended, calls, util>>

\* line 261
MergeReturn ==
    /\ ld.pc = "lib"
    /\ ld.j > Len(ld.libs)
    /\ ld' = [ld EXCEPT !.pc = "returned"]
    /\ UNCHANGED <<frame, suspended, calls, util>>

\* every directory of up to MaxFiles files of each kind.  An Excel file
\* supplies any set of names, a library one name; loading either may raise
\* the error that is caught or one that is not
Directories ==
    { [pc |-> "excel", excel |-> Take(x, nx), libs |-> Take(l, nl),
       i |-> 1, j |-> 1, sensor_filters |-> <<>>, new_filters |-> <<>>] :
        nx \in 0..MaxFiles, nl \in 0..MaxFiles,
        x \in [1..MaxFiles ->
                 [raises : {"none"}, names : SUBSET FilterNames]
                    \cup [raises : {"UnsupportedDataFormatError", "ValueError"},
                          names : {{}}]],
        l \in [1..MaxFiles ->
                 [raises : {"none", "UnsupportedDataFormatError", "FileNotFoundError"},
                  name : FilterNames]] }

InitMerge ==
    /\ ld \in Directories
    /\ NoInvocation
    /\ util = NoUtil

NextMerge ==
    \/ MergeExcel
    \/ MergeLibraries
    \/ MergeLibrary
    \/ MergeReturn

SpecMerge == InitMerge /\ [][NextMerge]_vars

----------------------------------------------------------------------------
(* properties of forward_model *)

\* numpy.allclose with the tolerances of the forward-model tests:
\* |x - y| <= atol + rtol * |y|, atol rounded up to one unit
RTolInv == 1000
ATol == 1
AllClose(x, y) ==
    \/ x = y
    \/ IsFin(x) /\ IsFin(y) /\ Abs(x - y) <= ATol + Abs(y) \div RTolInv

Returned == pc = "returned"
Raised == pc = "raised"
ResultFields == {"r_substratum", "rrs", "rrsdp", "kd", "kub", "kuc", "a", "bb"}

\* some per-band sequence of the call has a length other than num_bands
C1_Mismatch ==
    \/ Len(args.substrate1) # args.num_bands
    \/ Len(args.wavelengths) # args.num_bands
    \/ Len(args.awater) # args.num_bands
    \/ Len(args.aphy_star) # args.num_bands
    \/ (args.has_substrate2 /\ Len(args.substrate2) # args.num_bands)

\* C1: a call in which a per-band sequence (substrate1, wavelengths, awater,
\* aphy_star, or substrate2 when given) has a length other than num_bands
\* fails with AssertionError at the opening checks: nothing has been
\* computed and no result record is returned.
C1_ShapeMismatchFailsFirst ==
    (C1_Mismatch /\ pc # "validate") =>
        /\ Raised
        /\ error = "AssertionError"
        /\ DOMAIN loc = {}
        /\ result = <<>>

\* C1 witness: a call rejected although only the optional substrate2 has the
\* wrong length, with a refractive index that would fail the first division
C1_Witness ==
    /\ Raised
    /\ error = "AssertionError"
    /\ args.has_substrate2
    /\ Len(args.substrate2) # args.num_bands
    /\ Len(args.substrate1) = args.num_bands
    /\ Len(args.wavelengths) = args.num_bands
    /\ Len(args.awater) = args.num_bands
    /\ Len(args.aphy_star) = args.num_bands
    /\ args.water_refractive_index = 0

\* sin(angle) / water_refractive_index, the quantity whose arcsine is taken
C2_Ratio(angle) ==
    FMul(FDiv(Scale, args.water_refractive_index), Sin(Radians(angle)))

\* the refractive index is non-zero and both arcsines are defined
C2_Refracts ==
    /\ args.water_refractive_index # 0
    /\ Abs(C2_Ratio(args.theta_air)) <= Scale
    /\ Abs(C2_Ratio(args.off_nadir)) <= Scale

C3_SingleSubstrate ==
    (Returned /\ ~args.has_substrate2) =>
        /\ Len(result[1].r_substratum) = Len(args.substrate1)
        /\ \A i \in 1..args.num_bands :
               FEq(result[1].r_substratum[i], args.substrate1[i])

\* C3 witness: a single-substrate call returned with a fraction other than
\* 0 and 1 and a non-zero substrate
C3_Witness ==
    /\ Returned
    /\ ~args.has_substrate2
    /\ args.substrate_fraction \notin {0, Scale}
    /\ \E i \in 1..args.num_bands : args.substrate1[i] # 0

\* C4: with substrate2 given, r_substratum is at every band
\* substrate_fraction * substrate1 + (1 - substrate_fraction) * substrate2;
\* a fraction of 1 gives substrate1 and a fraction of 0 gives substrate2.
C4_ConvexCombination ==
    (Returned /\ args.has_substrate2) =>
        \A i \in 1..args.num_bands :
            /\ FEq(result[1].r_substratum[i],
                   FAdd(FMul(args.substrate_fraction, args.substrate1[i]),
                        FMul(FSub(Scale, args.substrate_fraction),
                             args.substrate2[i])))
            /\ (args.substrate_fraction = Scale =>
                    FEq(result[1].r_substratum[i], args.substrate1[i]))
            /\ (args.substrate_fraction = 0 =>
                    FEq(result[1].r_substratum[i], args.substrate2[i]))

\* C4 witness: a two-substrate call returned with fraction 0, the substrates
\* differing at every band
C4_Witness ==
    /\ Returned
    /\ args.has_substrate2
    /\ args.substrate_fraction = 0
    /\ \A i \in 1..args.num_bands : args.substrate1[i] # args.substrate2[i]

\* the record returned when the call is repeated with other concentrations
WithChl(c) == forward_model([args EXCEPT !.chl = c])
WithCdom(c) == forward_model([args EXCEPT !.cdom = c])
WithNap(c) == forward_model([args EXCEPT !.nap = c])

\* CDOM and NAP specific absorption at band i: exponential decay from the
\* reference absorption at the reference wavelength
C5_acdom_star(i) ==
    FMul(args.a_cdom_lambda0cdom,
         FExp(FMul(FNeg(args.slope_cdom),
                   FSub(args.wavelengths[i], args.lambda0cdom))))
C5_atr_star(i) ==
    FMul(args.a_nap_lambda0nap,
         FExp(FMul(FNeg(args.slope_nap),
                   FSub(args.wavelengths[i], args.lambda0nap))))

\* C5: the returned total absorption is at every band
\* awater + chl*aphy_star + cdom*acdom_star + nap*atr_star, with acdom_star
\* and atr_star derived from the SIOP parameters and the band's wavelength,
\* and it is linear in each of chl, cdom and nap: over the concentrations
\* c = 0..MaxConc, a(c) - a(0) = c * (a(1) - a(0)).
C5_TotalAbsorption ==
    Returned =>
        \A i \in 1..args.num_bands :
            /\ IsFin(result[1].a[i])
            /\ result[1].a[i] =
                   FAdd(FAdd(FAdd(args.awater[i],
                                  FMul(args.chl, args.aphy_star[i])),
                             FMul(args.cdom, C5_acdom_star(i))),
                        FMul(args.nap, C5_atr_star(i)))
            /\ \A c \in 0..MaxConc :
                   /\ WithChl(c * Scale).a[i] - WithChl(0).a[i] =
                          c * (WithChl(Scale).a[i] - WithChl(0).a[i])
                   /\ WithCdom(c * Scale).a[i] - WithCdom(0).a[i] =
                          c * (WithCdom(Scale).a[i] - WithCdom(0).a[i])
                   /\ WithNap(c * Scale).a[i] - WithNap(0).a[i] =
                          c * (WithNap(Scale).a[i] - WithNap(0).a[i])
            /\ result[1].a[i] = WithChl(args.chl).a[i]

\* C5 witness: a record returned with all three constituents present and
\* all three specific absorptions positive at some band
C5_Witness ==
    /\ Returned
    /\ args.chl = MaxConc * Scale
    /\ args.cdom > 0
    /\ args.nap > 0
    /\ \E i \in 1..args.num_bands :
           /\ args.aphy_star[i] > 0
           /\ loc.acdom_star[i] > 0
           /\ loc.atr_star[i] > 0

\* C6: the returned total backscatter is at every band
\* bbwater + chl*bbph_star + nap*bbtr_star, and a call that differs only in
\* cdom returns the same bb.
C6_TotalBackscatter ==
    Returned =>
        /\ \A i \in 1..args.num_bands :
               result[1].bb[i] =
                   FAdd(FAdd(loc.bbwater[i], FMul(args.chl, loc.bbph_star[i])),
                        FMul(args.nap, loc.bbtr_star[i]))
        /\ \A c \in 0..MaxConc : WithCdom(c * Scale).bb = result[1].bb

\* C6 witness: a record returned with CDOM present and a backscatter to
\* which both phytoplankton and NAP contribute
C6_Witness ==
    /\ Returned
    /\ args.cdom > 0
    /\ args.chl > 0
    /\ args.nap > 0
    /\ \E i \in 1..args.num_bands :
           loc.bbph_star[i] > 0 /\ loc.bbtr_star[i] > 0

C8_Finite(l, i) ==
    /\ IsFin(l.u[i])
    /\ IsFin(l.rrsdp[i])
    /\ IsFin(l.du_column_scaled[i])
    /\ IsFin(l.du_bottom_scaled[i])

\* C8 as stated: at depth 0 rrs equals (1/pi)*r_substratum at every band.
C8_ZeroDepthEveryBand ==
    (Returned /\ args.depth = 0) =>
        \A i \in 1..args.num_bands :
            FEq(result[1].rrs[i], FMul(InvPi, result[1].r_substratum[i]))

\* the zero-depth identity at band i for the call with arguments p
C8_HoldsFor(p, i) ==
    LET l == FinalLocals(p)
    IN  C8_Finite(l, i) => FEq(l.rrs[i], FMul(InvPi, l.r_substratum[i]))

\* C8 amended: at depth 0 rrs equals (1/pi)*r_substratum at every band where
\* u = bb/kappa and both path elongations are finite, whatever chl, cdom and
\* nap are; at a band where u is not finite (kappa = 0) or an elongation is
\* undefined (1 + 2.4u or 1 + 5.4u negative), rrs is NaN.
C8_ZeroDepthFiniteBands ==
    (Returned /\ args.depth = 0) =>
        \A i \in 1..args.num_bands :
            /\ IF C8_Finite(loc, i)
               THEN FEq(result[1].rrs[i], FMul(InvPi, result[1].r_substratum[i]))
               ELSE IsNaN(result[1].rrs[i])
            /\ \A c \in {-Scale, 0, Scale} :
                   /\ C8_HoldsFor([args EXCEPT !.chl = c], i)
                   /\ C8_HoldsFor([args EXCEPT !.cdom = c], i)
                   /\ C8_HoldsFor([args EXCEPT !.nap = c], i)

\* C8 witness: a record returned at depth 0 with water constituents, a
\* non-zero optically-deep reflectance and a non-zero substrate
C8_Witness ==
    /\ Returned
    /\ args.depth = 0
    /\ args.chl > 0
    /\ \E i \in 1..args.num_bands :
           /\ C8_Finite(loc, i)
           /\ loc.rrsdp[i] > 0
           /\ result[1].r_substratum[i] > 0

\* C9: at every band rrs is
\*   rrsdp * (1 - exp(-(1/cos(thetaw) + du_column/cos(theta0)) * kappa*depth))
\*   + (1/pi) * r_substratum
\*            * exp(-(1/cos(thetaw) + du_bottom/cos(theta0)) * kappa*depth),
\* the column elongation in the water-column term, the bottom elongation
\* and the combined substrate in the bottom term; 1/cos(thetaw) and the two
\* quotients by cos(theta0) are the values the call computed, equal to the
\* quotients of the formula to within rounding.
C9_Reflectance ==
    Returned =>
        /\ loc.inv_cos_thetaw = FDiv(Scale, Cos(loc.thetaw))
        /\ \A i \in 1..args.num_bands :
               /\ AllClose(loc.du_column_scaled[i],
                           FDiv(loc.du_column[i], Cos(loc.thetao)))
               /\ AllClose(loc.du_bottom_scaled[i],
                           FDiv(loc.du_bottom[i], Cos(loc.thetao)))
               /\ result[1].rrs[i] =
                      FAdd(FMul(result[1].rrsdp[i],
                                FSub(Scale,
                                     FExp(FMul(FNeg(FAdd(loc.inv_cos_thetaw,
                                                         loc.du_column_scaled[i])),
                                               FMul(loc.kappa[i], args.depth))))),
                           FMul(FMul(InvPi, result[1].r_substratum[i]),
                                FExp(FMul(FNeg(FAdd(loc.inv_cos_thetaw,
                                                    loc.du_bottom_scaled[i])),
                                          FMul(loc.kappa[i], args.depth)))))

\* C9 witness: a record returned for a positive depth, two substrates and an
\* oblique view, at a band where both terms of rrs are non-zero and the two
\* elongations differ
C9_Witness ==
    /\ Returned
    /\ args.depth > 0
    /\ args.has_substrate2
    /\ args.off_nadir > 0
    /\ \E i \in 1..args.num_bands :
           /\ IsFin(result[1].rrs[i])
           /\ result[1].rrsdp[i] > 0
           /\ result[1].r_substratum[i] > 0
           /\ loc.kappa[i] > 0
           /\ loc.du_column_scaled[i] # loc.du_bottom_scaled[i]
           /\ result[1].rrs[i] > result[1].rrsdp[i]

\* the refracted angle of an angle given in degrees
C10_Refracted(angle) ==
    Asin(FDiv(Sin(Radians(angle)), args.water_refractive_index))

\* C10: in the returned record kd holds kappa/cos(thetaw), kuc holds
\* kappa*du_column/cos(theta0) and kub holds kappa*du_bottom/cos(theta0), to
\* within rounding, where thetaw = asin(sin(theta_air)/n) and
\* theta0 = asin(sin(off_nadir)/n) for the refractive index n.
C10_Attenuation ==
    Returned =>
        /\ loc.thetaw = C10_Refracted(args.theta_air)
        /\ loc.thetao = C10_Refracted(args.off_nadir)
        /\ \A i \in 1..args.num_bands :
               /\ AllClose(result[1].kd[i],
                           FDiv(loc.kappa[i], Cos(C10_Refracted(args.theta_air))))
               /\ AllClose(result[1].kuc[i],
                           FDiv(FMul(loc.kappa[i], loc.du_column[i]),
                                Cos(C10_Refracted(args.off_nadir))))
               /\ AllClose(result[1].kub[i],
                           FDiv(FMul(loc.kappa[i], loc.du_bottom[i]),
                                Cos(C10_Refracted(args.off_nadir))))

\* C10 witness: a record returned for oblique sun and view whose kub and kuc
\* differ by more than rounding at some band
C10_Witness ==
    /\ Returned
    /\ args.theta_air > 0
    /\ args.off_nadir > 0
    /\ \E i \in 1..args.num_bands :
           /\ IsFin(result[1].kub[i])
           /\ IsFin(result[1].kuc[i])
           /\ result[1].kd[i] > 0
           /\ ~AllClose(result[1].kub[i], result[1].kuc[i])

\* every invocation that has finished, on either thread
Invocations ==
    calls.done
        \cup (IF Finished(Running) THEN {Seen(Running)} ELSE {})
        \cup (IF suspended # <<>> /\ Finished(suspended[1])
              THEN {Seen(suspended[1])} ELSE {})

\* C11: any two finished invocations with the same arguments, whichever
\* thread made them, in whatever order and with whatever other invocations
\* before and between them, returned records with the same eight fields (or
\* raised the same exception).
C11_Deterministic ==
    \A x \in Invocations, y \in Invocations :
        x.args = y.args => (x.result = y.result /\ x.error = y.error)

\* C11 witness: two returned invocations with the same arguments and,
\* entered between them, an invocation that returned another record
C11_Witness ==
    \E x \in Invocations, y \in Invocations, z \in Invocations :
        /\ x.call < z.call
        /\ z.call < y.call
        /\ x.args = y.args
        /\ Len(x.result) = 1
        /\ Len(y.result) = 1
        /\ Len(z.result) = 1
        /\ z.result # x.result

\* C12: whenever forward_model returns, each of the eight fields of the
\* record is an array of exactly num_bands elements, with substrate2 and
\* without it.
C12_OutputLengths ==
    Returned =>
        \A f \in ResultFields :
            /\ DOMAIN result[1][f] = 1..args.num_bands
            /\ Len(result[1][f]) = args.num_bands

\* C12 witness: a record of MaxBands bands returned for two substrates
C12_Witness ==
    /\ Returned
    /\ args.has_substrate2
    /\ args.num_bands = MaxBands
    /\ DOMAIN result[1] = ResultFields

\* the objects passed to the invocation x, and the fields of its record
\* that are objects the invocation itself allocated
C13_InputObjects(x) == {x.inputs[n] : n \in ArrayArgs}
C13_Fresh(x, f) ==
    /\ x.fields[f] \notin C13_InputObjects(x)
    /\ x.fields[f][1] = x.call
    /\ \A g \in ResultFields \ {f} : x.fields[g] # x.fields[f]

\* C13 as stated: no field of a returned record is an object that was
\* passed in, r_substratum without substrate2 included.
C13_NoFieldIsAnInput ==
    \A x \in Invocations :
        Len(x.result) = 1 =>
            \A f \in ResultFields : x.fields[f] \notin C13_InputObjects(x)

\* C13 amended: every field of a returned record is an array allocated by
\* that invocation, distinct from every input, from the other fields and
\* from the fields of every other invocation's record, except r_substratum
\* when substrate2 is None, which is the very object passed as substrate1;
\* with substrate2 given r_substratum is a new array as well.
C13_FreshExceptSingleSubstrate ==
    \A x \in Invocations :
        Len(x.result) = 1 =>
            /\ \A f \in ResultFields \ {"r_substratum"} : C13_Fresh(x, f)
            /\ IF x.args.has_substrate2
               THEN C13_Fresh(x, "r_substratum")
               ELSE x.fields["r_substratum"] = x.inputs["substrate1"]
            /\ \A y \in Invocations :
                   (Len(y.result) = 1 /\ y.call # x.call) =>
                       \A f \in ResultFields, g \in ResultFields :
                           x.fields[f] = y.fields[g] =>
                               /\ f = "r_substratum"
                               /\ g = "r_substratum"
                               /\ ~x.args.has_substrate2
                               /\ ~y.args.has_substrate2

\* C13 witness: three records returned, with one substrate, with two, and
\* with one again, the first and the last sharing the caller's substrate1
C13_Witness ==
    \E x \in Invocations, y \in Invocations, z \in Invocations :
        /\ Len(x.result) = 1 /\ Len(y.result) = 1 /\ Len(z.result) = 1
        /\ x.call # z.call
        /\ ~x.args.has_substrate2
        /\ y.args.has_substrate2
        /\ ~z.args.has_substrate2
        /\ x.fields["r_substratum"] = z.fields["r_substratum"]
        /\ x.fields["r_substratum"] = CallerObject("substrate1")

\* a step of forward_model leaves its arguments as they were: the scalars,
\* the values of the five arrays and the objects the parameters name
C14_InputsKept ==
    /\ args' = args
    /\ \A n \in ArrayArgs : obj'.of[n] = obj.of[n]

\* a step of forward_model changes nothing outside its own frame: not the
\* frame of the other thread, not the records already returned, no other
\* state of the package
C14_OnlyOwnFrame ==
    /\ suspended' = suspended
    /\ calls' = calls
    /\ util' = util
    /\ ld' = ld

\* the invocation x ended as it would have ended running alone
C14_AsAlone(x) ==
    IF forward_model_error(x.args) = "none"
    THEN x.error = "none" /\ x.result = <<forward_model(x.args)>>
    ELSE x.error = forward_model_error(x.args) /\ x.result = <<>>

OnlyBand(p, i) ==
    [p EXCEPT !.num_bands = 1,
              !.substrate1 = <<p.substrate1[i]>>,
              !.substrate2 = IF p.has_substrate2 THEN <<p.substrate2[i]>> ELSE <<>>,
              !.wavelengths = <<p.wavelengths[i]>>,
              !.awater = <<p.awater[i]>>,
              !.aphy_star = <<p.aphy_star[i]>>]

\* the refracted sun ray is horizontal: sin(theta_air)/n = 1, the sub-surface
\* angle is asin(1), whose cosine is 0 in exact arithmetic
C15_Grazing == C2_Ratio(args.theta_air) = Scale

\* the outputs of band i that divide by kappa are infinite or NaN
C15_NotFinite(i) ==
    /\ ~IsFin(loc.u[i])
    /\ ~IsFin(result[1].rrsdp[i])
    /\ ~IsFin(result[1].kuc[i])
    /\ ~IsFin(result[1].kub[i])
    /\ ~IsFin(result[1].rrs[i])

\* C15 as stated: a record is returned, and the affected outputs hold
\* infinity or NaN at a band where kappa is 0 and, when the cosine of the
\* sub-surface solar angle vanishes (grazing incidence), in kd = kappa/cos.
C15_InfinityAtZeroCosine ==
    /\ ~Raised
    /\ Returned =>
           \A i \in 1..args.num_bands :
               /\ loc.kappa[i] = 0 => C15_NotFinite(i)
               /\ C15_Grazing => ~IsFin(result[1].kd[i])

\* C15 amended: with kappa = a + bb equal to 0 at some band the call still
\* returns a record; at that band u = bb/0 is infinite or NaN and so are
\* rrsdp, kuc, kub and rrs, nothing being clamped or substituted, while
\* kd = 0, a, bb and r_substratum stay finite; every band where kappa is
\* not 0 holds, in all eight fields, the values of the call made with that
\* band alone.  The cosine of a sub-surface angle is never 0: at grazing
\* incidence it is a small positive number, 1/cos is finite, the call
\* returns and kd = kappa * (1/cos) is a finite number wherever kappa is.
C15_Degenerate ==
    /\ ~Raised
    /\ Returned =>
           /\ IsFin(loc.inv_cos_thetaw) /\ loc.inv_cos_thetaw > 0
           /\ IsFin(loc.inv_cos_theta0) /\ loc.inv_cos_theta0 > 0
           /\ \A i \in 1..args.num_bands :
                  /\ result[1].kd[i] = FMul(loc.kappa[i], loc.inv_cos_thetaw)
                  /\ IsFin(result[1].kd[i])
                  /\ loc.kappa[i] = 0 =>
                         /\ loc.u[i] = FDiv(result[1].bb[i], 0)
                         /\ C15_NotFinite(i)
                         /\ result[1].kd[i] = 0
                         /\ IsFin(result[1].a[i])
                         /\ IsFin(result[1].bb[i])
                         /\ IsFin(result[1].r_substratum[i])
                  /\ loc.kappa[i] # 0 =>
                         \A f \in ResultFields :
                             result[1][f][i] = forward_model(OnlyBand(args, i))[f][1]

\* C15 witness: a record returned at grazing incidence with a band where
\* kappa is 0 although bb is not (u infinite), and a band where kappa is
\* not 0 whose kd and rrsdp are finite and positive
C15_Witness ==
    /\ Returned
    /\ C15_Grazing
    /\ \E i \in 1..args.num_bands :
           loc.kappa[i] = 0 /\ result[1].bb[i] # 0 /\ IsInf(loc.u[i])
    /\ \E i \in 1..args.num_bands :
           /\ loc.kappa[i] # 0
           /\ IsFin(result[1].kd[i]) /\ result[1].kd[i] > 0
           /\ IsFin(result[1].rrsdp[i]) /\ result[1].rrsdp[i] > 0

\* the per-band arguments of the call, and other values for one element of
\* each: ordinary ones and ones that make the band degenerate (a zero
\* wavelength, a NaN reflectance)
C16_Arrays ==
    {"wavelengths", "awater", "aphy_star", "substrate1"}
        \cup (IF args.has_substrate2 THEN {"substrate2"} ELSE {})
C16_Values(n) ==
    IF n = "wavelengths" THEN {0, 700000}
    ELSE IF n = "awater" THEN {-1000, 5000}
    ELSE IF n = "aphy_star" THEN {0, 900}
    ELSE {NaN, 950}

\* the record returned when element j of the argument n is v instead
C16_With(n, j, v) == forward_model([args EXCEPT ![n][j] = v])

\* C16: each of the eight outputs at band i is a function of the scalar
\* parameters and of the inputs at band i alone: it equals the output of
\* the call made with band i only, and replacing an element of wavelengths,
\* awater, aphy_star, substrate1 or substrate2 at another band j leaves the
\* output at band i as it was, in every field.
C16_BandIndependent ==
    Returned =>
        /\ \A i \in 1..args.num_bands :
               LET alone == forward_model(OnlyBand(args, i))
               IN  \A f \in ResultFields : result[1][f][i] = alone[f][1]
        /\ \A j \in 1..args.num_bands, n \in C16_Arrays :
               \A v \in C16_Values(n) :
                   LET other == C16_With(n, j, v)
                   IN  \A i \in (1..args.num_bands) \ {j}, f \in ResultFields :
                           other[f][i] = result[1][f][i]

\* C16 witness: a record of two or more bands returned for two substrates,
\* where replacing an input of a band does change that band's own rrs
C16_Witness ==
    /\ Returned
    /\ args.num_bands >= 2
    /\ args.has_substrate2
    /\ \A j \in 1..args.num_bands, n \in C16_Arrays :
           \E v \in C16_Values(n) :
               C16_With(n, j, v).rrs[j] # result[1].rrs[j]

\* the outputs of the water column
C23_WaterColumn == {"a", "bb", "rrsdp", "kd", "kuc", "kub"}

\* the arguments of the call with another depth, other substrates and
\* another fraction: deeper and shallower water, a black and a bright
\* bottom, one substrate or two, every mixture
C23_Others ==
    { [args EXCEPT !.depth = h,
                   !.substrate1 = Ramp(args.num_bands, s1, 50),
                   !.has_substrate2 = s,
                   !.substrate2 = IF s THEN Ramp(args.num_bands, 600, 100) ELSE <<>>,
                   !.substrate_fraction = q] :
        h \in {0, 500, 20000}, s1 \in {0, 800}, s \in BOOLEAN,
        q \in {0, 250, 1000} }

\* C23: a call that differs from the one made only in depth, substrate1,
\* substrate2 and substrate_fraction returns the same a, bb, rrsdp, kd, kuc
\* and kub, band by band.
C23_WaterColumnIndependent ==
    Returned =>
        \A p \in C23_Others :
            LET other == forward_model(p)
            IN  \A f \in C23_WaterColumn : other[f] = result[1][f]

\* C23 witness: a record returned for which another depth and bottom give
\* another r_substratum and another rrs at every band
C23_Witness ==
    /\ Returned
    /\ \E p \in C23_Others :
           LET other == forward_model(p)
           IN  /\ p.depth # args.depth
               /\ \A i \in 1..args.num_bands :
                      /\ other.rrs[i] # result[1].rrs[i]
                      /\ other.r_substratum[i] # result[1].r_substratum[i]
               /\ \A f \in C23_WaterColumn : other[f] = result[1][f]

----------------------------------------------------------------------------
(* properties of the array utilities *)

UtilReturned(f) == util.fn = f /\ util.pc = "returned"

RECURSIVE C17_Sum(_, _)
\* the sum of the values of v at the positions S
C17_Sum(v, S) ==
    IF S = {} THEN 0
    ELSE LET j == CHOOSE j \in S : TRUE
         IN  FAdd(v[j], C17_Sum(v, S \ {j}))

\* C17: apply_sensor_filter(spectra, response) returns one value per row of
\* response; the value of row r is sum_j(response[r][j] * spectra[j]) divided
\* by sum_j(response[r][j]), whether or not the row sums to 1, so that for
\* non-negative weights that are not all zero it lies between the smallest
\* and the largest value of the spectrum (a row of zeros gives NaN).
C17_WeightedAverage ==
    UtilReturned("apply_sensor_filter") =>
        /\ Len(util.ret) = Len(util.y)
        /\ \A r \in 1..Len(util.y) :
               LET w == util.y[r]
                   cols == 1..Len(util.x)
                   total == C17_Sum(w, cols)
               IN  /\ util.ret[r] =
                          FDiv(C17_Sum([j \in cols |-> FMul(w[j], util.x[j])], cols),
                               total)
                   /\ total > 0 =>
                          /\ \E j \in cols : util.ret[r] >= util.x[j]
                          /\ \E j \in cols : util.ret[r] <= util.x[j]
                   /\ total = 0 => IsNaN(util.ret[r])

\* C17 witness: a two-row filter applied, one row with weights 1 and 3 on
\* different values, its result strictly between them
C17_Witness ==
    /\ UtilReturned("apply_sensor_filter")
    /\ Len(util.y) = 2
    /\ Len(util.x) >= 2
    /\ \E r \in 1..2 :
           /\ util.y[r][1] = 1000
           /\ util.y[r][2] = 3000
           /\ util.x[1] < util.ret[r]
           /\ util.ret[r] < util.x[2]

\* C18: spectra_apply_wavelength_mask(spectra, mask) returns exactly the
\* (wavelength, value) pairs of spectra whose wavelength is an element of
\* mask, wavelengths and values of equal length, aligned and in the
\* original order.
C18_KeepsExactlyMasked ==
    UtilReturned("spectra_apply_wavelength_mask") =>
        LET in_mask == [i \in 1..Len(util.x[1]) |->
                           \E k \in 1..Len(util.y) : util.y[k] = util.x[1][i]]
        IN  /\ Len(util.ret[1]) = Len(util.ret[2])
            /\ util.ret[1] = Compress(util.x[1], in_mask)
            /\ util.ret[2] = Compress(util.x[2], in_mask)

\* the values that occur in the array s
C19_Values(s) == {s[i] : i \in 1..Len(s)}

\* C19: spectra_find_common_wavelengths(wavs_a, wavs_b) returns exactly the
\* values that occur in both arguments (so none that is missing from
\* either), each once and in increasing order, and returns the same array
\* when the arguments are swapped.
C19_CommonWavelengths ==
    UtilReturned("spectra_find_common_wavelengths") =>
        /\ C19_Values(util.ret) = C19_Values(util.x) \cap C19_Values(util.y)
        /\ C19_Values(util.ret) \subseteq C19_Values(util.x)
        /\ C19_Values(util.ret) \subseteq C19_Values(util.y)
        /\ \A i \in 1..Len(util.ret), j \in 1..Len(util.ret) :
               i < j => util.ret[i] < util.ret[j]
        /\ util.ret = spectra_find_common_wavelengths(util.y, util.x)

\* C19 witness: two common values returned in increasing order from a
\* first argument that holds them in decreasing order
C19_Witness ==
    /\ UtilReturned("spectra_find_common_wavelengths")
    /\ Len(util.ret) = 2
    /\ util.x[1] > util.x[2]
    /\ util.ret[1] = util.x[2]

\* the sheets a call asked for that are in the workbook and that the
\* validation accepts
C20_Loadable ==
    {ld.requested[k] : k \in 1..Len(ld.requested)}
        \cap {n \in DOMAIN Workbook : validate_filter_dataframe(Workbook[n]) = "True"}

\* C20: load_sensor_filters_excel never raises for a sheet that is missing
\* or invalid: every call returns, and the keys of the dictionary it returns
\* are exactly the requested sheets that exist in the workbook and pass the
\* validation.
C20_SkipsMissingAndInvalid ==
    ld.pc \notin {"none", "open", "loop"} =>
        /\ ld.pc = "returned"
        /\ DOMAIN ld.sensor_filters = C20_Loadable

\* the wavelengths of the frame increase strictly, every spacing is exactly
\* 1 nm, and every column is numeric
C22_Acceptable(df) ==
    /\ \A k \in 1..(Len(df.index) - 1) :
           df.index[k] < df.index[k + 1] /\ df.index[k + 1] - df.index[k] = Scale
    /\ df.numeric

\* the sheets of the workbook that the loop has validated so far
C22_Validated ==
    {ld.sheet_names[k] : k \in 1..(ld.i - 1)} \cap DOMAIN Workbook

\* C22: validation returns a boolean for every sheet, never raising, and
\* accepts a sheet if and only if its wavelengths are strictly increasing,
\* spaced by exactly 1 nm, and its columns numeric: the loader has raised
\* nothing, and of the sheets validated so far exactly the acceptable ones
\* are in the dictionary.
C22_ValidatesEverySheet ==
    ld.pc \in {"loop", "returned", "ValueError"} =>
        /\ ld.pc # "ValueError"
        /\ \A n \in C22_Validated :
               n \in DOMAIN ld.sensor_filters <=> C22_Acceptable(Workbook[n])

----------------------------------------------------------------------------
(* properties of load_sensor_filters *)

\* the Excel files and the libraries merged so far that supplied the name n
C21_ExcelSources(n) ==
    {k \in 1..(ld.i - 1) : ld.excel[k].raises = "none" /\ n \in ld.excel[k].names}
C21_LibSources(n) ==
    {k \in 1..(ld.j - 1) : ld.libs[k].raises = "none" /\ ld.libs[k].name = n}

C21_Least(S) == CHOOSE k \in S : \A m \in S : k <= m

\* the filter of the first source that supplied n, Excel files coming
\* before libraries
C21_First(n) ==
    IF C21_ExcelSources(n) # {} THEN <<"excel", C21_Least(C21_ExcelSources(n))>>
    ELSE <<"lib", C21_Least(C21_LibSources(n))>>

C21_Offered == {n \in FilterNames : C21_ExcelSources(n) \cup C21_LibSources(n) # {}}

\* the source merged by this step raised nothing
C21_SourceLoads ==
    \/ ld.pc = "excel" /\ ld.i <= Len(ld.excel) /\ ld.excel[ld.i].raises = "none"
    \/ ld.pc = "lib" /\ ld.j <= Len(ld.libs) /\ ld.libs[ld.j].raises = "none"

\* C21: at every point of load_sensor_filters the keys of sensor_filters are
\* the names offered so far and each maps to the filter of the first source
\* that supplied it; no step changes the filter of a key already present or
\* removes it; and merging a source that loads, duplicate names or not,
\* raises no error.
C21_FirstWins ==
    /\ [](ld.pc \in {"excel", "lib", "returned"} =>
            /\ DOMAIN ld.sensor_filters = C21_Offered
            /\ \A n \in C21_Offered : ld.sensor_filters[n] = C21_First(n))
    /\ [][/\ \A n \in DOMAIN ld.sensor_filters :
                 /\ n \in DOMAIN ld'.sensor_filters
                 /\ ld'.sensor_filters[n] = ld.sensor_filters[n]
           /\ C21_SourceLoads => ld'.pc \in {"excel", "lib"}]_vars

\* C21 witness: the call has returned after two Excel files and a library
\* all supplied the same name, and a second name came from a library alone
C21_Witness ==
    /\ ld.pc = "returned"
    /\ \E n \in FilterNames :
           /\ C21_ExcelSources(n) = {1, 2}
           /\ C21_LibSources(n) # {}
           /\ ld.sensor_filters[n] = <<"excel", 1>>
    /\ \E n \in FilterNames :
           /\ C21_ExcelSources(n) = {}
           /\ n \in DOMAIN ld.sensor_filters

====
